---- MODULE Spec2Model ----
(***************************************************************************)
(* Customer analytics: the batch loaders (scripts/reload_data.py,          *)
(* src/data/load_to_postgres.py) that fill a PostgreSQL store, and the     *)
(* FastAPI routers (backend/routers) that read it.                          *)
(*                                                                         *)
(* The store is modelled as the committed contents of each table.  The     *)
(* loaders run under SQLAlchemy 2.0 ("commit as you go"): the statements    *)
(* executed on one engine.connect() connection form one transaction that   *)
(* conn.commit() publishes and that closing the connection rolls back;     *)
(* PostgreSQL DDL (DROP TABLE, CREATE TABLE AS) is transactional.           *)
(***************************************************************************)
EXTENDS Integers, Sequences, FiniteSets, TLC

(***************************************************************************)
(* Bounds of the model.                                                    *)
(***************************************************************************)
MaxEvents == 3         \* outside events in one behaviour: loader runs started,
                       \* CSV exports, damaged files, store outages

(***************************************************************************)
(* Values.                                                                 *)
(***************************************************************************)
NULL == "NULL"         \* SQL NULL / pandas NaN / Python None

RECURSIVE GCD(_, _)
GCD(a, b) == IF b = 0 THEN a ELSE GCD(b, a % b)

Abs(n) == IF n < 0 THEN -n ELSE n

\* An exact fraction n/d (d # 0) in lowest terms with a positive denominator:
\* the value of a float the code computes by a division.
Rat(n, d) ==
    LET g == GCD(Abs(n), Abs(d))
        s == IF d < 0 THEN -1 ELSE 1
    IN  [num |-> s * (n \div g), den |-> s * (d \div g)]

NullRat == [num |-> 0, den |-> 0]     \* a NULL where a fraction is expected

RECURSIVE SumOver(_, _)
\* The sum of f[x] over the finite set S.
SumOver(S, f) ==
    IF S = {} THEN 0
    ELSE LET x == CHOOSE y \in S : TRUE IN f[x] + SumOver(S \ {x}, f)

Range(s) == {s[i] : i \in DOMAIN s}

RECURSIVE Perms(_)
\* The sequences that hold each element of the finite set S once.
Perms(S) ==
    IF S = {} THEN {<< >>}
    ELSE UNION {{<< x >> \o q : q \in Perms(S \ {x})} : x \in S}

\* All orderings of the finite set S that respect Before (a strict weak order):
\* the rows of a query with an ORDER BY, ties in any order.
Orderings(S, Before(_, _)) ==
    {q \in Perms(S) : \A i, j \in DOMAIN q : i < j => ~Before(q[j], q[i])}

\* The elements of the finite set S in some order.
AsSeq(S) == CHOOSE q \in [1..Cardinality(S) -> S] : Range(q) = S

Take(q, n) == IF Len(q) <= n THEN q ELSE SubSeq(q, 1, n)

(***************************************************************************)
(* The CSV exports the loaders read (data/processed/*.csv).                *)
(***************************************************************************)
Files == {"online_retail_enhanced", "rfm_segments", "segment_summary",
          "sales_forecast", "monthly_forecast"}

Txn(inv, day, cust, country, descr, qty, price) ==
    [InvoiceNo |-> inv, InvoiceDate |-> day, CustomerID |-> cust,
     Country |-> country, Description |-> descr, Quantity |-> qty,
     UnitPrice |-> price, TotalRevenue |-> qty * price]

\* Two products whose descriptions agree on their first 50 characters.
TinsRed == "VINTAGE ENAMEL KITCHEN STORAGE TIN WITH LID, SET 3 RED"
TinsBlue == "VINTAGE ENAMEL KITCHEN STORAGE TIN WITH LID, SET 3 BLUE"

\* Version 1 holds the two invoices of one day, 100 and -20 (a return), the
\* second with no country; version 2 a later day, with a sale that has no
\* country and a return from a country spelled "Unknown", of the two
\* products above; version 0 is a header only.
SalesV(v) ==
    CASE v = 0 -> << >>
      [] v = 1 -> << Txn("I1", 9, "c1", "UK", "mug", 2, 50),
                     Txn("I2", 9, "c2", NULL, "cup", -1, 20) >>
      [] OTHER -> << Txn("I3", 10 + (v - 2), "c1", "DE", "mug", 3, 40 * (v - 1)),
                     Txn("I4", 10 + (v - 2), "c3", NULL, TinsRed, 1, 20),
                     Txn("I5", 10 + (v - 2), "c3", "Unknown", TinsBlue, -1, 20) >>

Rfm(cust, rec, freq, mon, r, f, m, seg) ==
    [customerid |-> cust, recency |-> rec, frequency |-> freq, monetary |-> mon,
     r_score |-> r, f_score |-> f, m_score |-> m,
     rfm_score |-> r * 100 + f * 10 + m, segment |-> seg]

RfmV(v) ==
    CASE v = 0 -> << >>
      [] v = 1 -> << Rfm("c1", 1, 1, 100, 5, 3, 5, "Champions"),
                     Rfm("c2", 1, 1, -20, 5, 3, 1, "At Risk") >>
      [] OTHER -> << Rfm("c1", 0, 3, 100 * (v - 1), 5, 4, 4, "Champions"),
                     Rfm("c3", 300, 0, 50, 1, 1, 2, "Lost"),
                     Rfm("c4", 200, 1, 500, 2, 3, 5, "at risk"),
                     Rfm("c5", 150, 2, 70, 2, 4, 3, "At Risk"),
                     Rfm("c6", 2, 4, 200, 5, 5, 5, "Champions") >>

\* SegmentSummary: one row per segment of the RFM records, with the counts,
\* totals and shares of section 3 of the specification.
SegmentSummaryOf(rfm) ==
    LET idx(seg) == {i \in DOMAIN rfm : rfm[i].segment = seg}
        mon == [i \in DOMAIN rfm |-> rfm[i].monetary]
        all == SumOver(DOMAIN rfm, mon)
    IN  { [segment |-> seg,
           customer_count |-> Cardinality(idx(seg)),
           total_revenue |-> SumOver(idx(seg), mon),
           avg_monetary |-> Rat(SumOver(idx(seg), mon), Cardinality(idx(seg))),
           customer_percentage |-> Rat(100 * Cardinality(idx(seg)), Len(rfm)),
           revenue_percentage |->
               IF all = 0 THEN NullRat ELSE Rat(100 * SumOver(idx(seg), mon), all)]
          : seg \in {rfm[i].segment : i \in DOMAIN rfm} }

Fc(day, rev, month) ==
    [forecast_date |-> day, predicted_revenue |-> rev,
     confidence_lower |-> rev - 10, confidence_upper |-> rev + 10, month |-> month]

\* Version 1 is the series 100, 200, 150; version 2 has two days at the
\* maximum and two at the minimum, the later of each written first; version
\* 0 is a header only.
ForecastV(v) ==
    CASE v = 0 -> << >>
      [] v = 1 -> << Fc(11, 100, "M1"), Fc(12, 200, "M1"), Fc(13, 150, "M1") >>
      [] OTHER -> << Fc(12, 200, "M1"), Fc(11, 200, "M1"),
                     Fc(14, 100, "M1"), Fc(13, 100, "M1") >>

MonthlyV == << [forecast_month |-> "M1", predicted_revenue |-> 450] >>

\* A file is missing, present but unparseable, or holds rows.
Missing == [state |-> "missing", rows |-> << >>]
Corrupt == [state |-> "corrupt", rows |-> << >>]
Holds(rows) == [state |-> "ok", rows |-> rows]

\* What one run of the upstream notebooks writes.
ExportV(v) ==
    [f \in Files |->
        CASE f = "online_retail_enhanced" -> Holds(SalesV(v))
          [] f = "rfm_segments" -> Holds(RfmV(v))
          [] f = "segment_summary" -> Holds(AsSeq(SegmentSummaryOf(RfmV(v))))
          [] f = "sales_forecast" -> Holds(ForecastV(v))
          [] OTHER -> Holds(MonthlyV)]

Versions == {0, 1, 2}

(***************************************************************************)
(* The store: the committed contents of each table.                        *)
(***************************************************************************)
Loaded == {"sales_data", "rfm_segments", "segment_summary",
           "sales_forecast", "monthly_forecast"}
Derived == {"daily_sales", "country_summary", "product_performance"}
Tables == Loaded \cup Derived

\* Loaded tables keep their rows in file order; a derived table has one row
\* per group.
NoRows(t) == IF t \in Loaded THEN << >> ELSE {}
Absent(t) == [exists |-> FALSE, rows |-> NoRows(t)]
Present(rows) == [exists |-> TRUE, rows |-> rows]

\* The result of a scalar aggregate: NULL over no rows.
Scalar(isnull, n) == [null |-> isnull, val |-> n]

\* SELECT SUM("TotalRevenue") FROM sales_data
TotalRevenueOf(s) ==
    IF s = << >> THEN Scalar(TRUE, 0)
    ELSE Scalar(FALSE, SumOver(DOMAIN s, [i \in DOMAIN s |-> s[i].TotalRevenue]))

\* The revenue of a group with the returns (negative amounts) left out.
GroupRevenueSalesOnly(s, idx) ==
    SumOver({i \in idx : s[i].TotalRevenue > 0}, [i \in DOMAIN s |-> s[i].TotalRevenue])

\* The aggregates of one group of sales_data rows (row indices idx).
GroupRevenue(s, idx) == SumOver(idx, [i \in DOMAIN s |-> s[i].TotalRevenue])
GroupInvoices(s, idx) == Cardinality({s[i].InvoiceNo : i \in idx})
GroupAvgRevenue(s, idx) == Rat(GroupRevenue(s, idx), Cardinality(idx))

\* CREATE TABLE daily_sales AS SELECT ... GROUP BY DATE("InvoiceDate")
DailySalesOf(s) ==
    LET idx(d) == {i \in DOMAIN s : s[i].InvoiceDate = d}
    IN  { [sale_date |-> d,
           daily_revenue |-> GroupRevenue(s, idx(d)),
           transaction_count |-> GroupInvoices(s, idx(d)),
           avg_order_value |-> GroupAvgRevenue(s, idx(d))]
          : d \in {s[i].InvoiceDate : i \in DOMAIN s} }

\* CREATE TABLE country_summary AS SELECT ... GROUP BY "Country", the share
\* taken against the total the script read before (a number in the query).
CountrySummaryOf(s, total) ==
    LET idx(c) == {i \in DOMAIN s : s[i].Country = c}
    IN  { [country |-> c,
           total_revenue |-> GroupRevenue(s, idx(c)),
           transaction_count |-> GroupInvoices(s, idx(c)),
           avg_transaction_value |-> GroupAvgRevenue(s, idx(c)),
           revenue_share_percentage |-> Rat(GroupRevenue(s, idx(c)) * 100, total)]
          : c \in {s[i].Country : i \in DOMAIN s} }

\* The country query is malformed when the total is None, and divides by
\* zero on the first group when the total is 0.
CountryQueryRaises(s, total) ==
    \/ total.null
    \/ total.val = 0 /\ s # << >>

\* The number of characters of a description that get_top_products shows.
DisplayLimit == 50

\* The product rollup grouped by what of a description is shown.
ProductPerformanceByDisplay(s) ==
    LET key(d) == IF Len(d) > DisplayLimit THEN SubSeq(d, 1, DisplayLimit) ELSE d
        idx(k) == {i \in DOMAIN s : key(s[i].Description) = k}
    IN  { [description |-> k,
           total_quantity |-> SumOver(idx(k), [i \in DOMAIN s |-> s[i].Quantity]),
           total_revenue |-> GroupRevenue(s, idx(k)),
           avg_unit_price |->
               Rat(SumOver(idx(k), [i \in DOMAIN s |-> s[i].UnitPrice]),
                   Cardinality(idx(k)))]
          : k \in {key(s[i].Description) : i \in DOMAIN s} }

\* CREATE TABLE product_performance AS SELECT ... GROUP BY "Description"
ProductPerformanceOf(s) ==
    LET idx(d) == {i \in DOMAIN s : s[i].Description = d}
    IN  { [description |-> d,
           total_quantity |-> SumOver(idx(d), [i \in DOMAIN s |-> s[i].Quantity]),
           total_revenue |-> GroupRevenue(s, idx(d)),
           avg_unit_price |->
               Rat(SumOver(idx(d), [i \in DOMAIN s |-> s[i].UnitPrice]),
                   Cardinality(idx(d)))]
          : d \in {s[i].Description : i \in DOMAIN s} }

(***************************************************************************)
(* State.                                                                  *)
(***************************************************************************)
VARIABLES
    csv,            \* the CSV files: file -> Missing, Corrupt or Holds(rows)
    events,         \* outside events so far
    tables,         \* the committed store, which is what a query of another
                    \* connection reads: table -> Absent(t) or Present(rows)
    dbUp,           \* the store accepts connections and statements
    pc,             \* each loader process's position
    script,         \* the script each loader process runs
    txn,            \* each loader process's open transaction
    total_revenue,  \* recreate_country_summary's local of that name
    wrote,          \* the tables a run has committed, in order
    errors,         \* the steps of a run that raised, in order
    lastGood,       \* each table as its last successful commit left it
    today,          \* CURRENT_DATE / date.today(), a day number
    resp            \* the last response of the HTTP layer

vars == << csv, events, tables, dbUp, pc, script, txn, total_revenue,
           wrote, errors, lastGood, today, resp >>

\* Two loader processes: a run, and a second one triggered while it is in flight.
Procs == {1, 2}

\* A response: the endpoint and its parameters, the HTTP status, the rows of
\* the body (a single object is one row) and, as bookkeeping that is not sent,
\* where each row came from: "db" (read from a table) or "sample" (made up).
Response(e, params, status, body, origin) ==
    [endpoint |-> e, params |-> params, status |-> status, body |-> body,
     origin |-> origin]

\* No request served yet.
NoResp == Response("none", [none |-> TRUE], 0, << >>, << >>)

\* No statement executed yet on the connection.
NoTxn == [tbl |-> "none", dropped |-> FALSE, created |-> FALSE, data |-> {}]

Finished == {"idle", "done", "failed", "aborted"}

Init ==
    /\ csv = ExportV(1)
    /\ events = 0
    /\ tables = [t \in Tables |-> Absent(t)]
    /\ dbUp = TRUE
    /\ pc = [r \in Procs |-> "idle"]
    /\ script = [r \in Procs |-> "none"]
    /\ txn = [r \in Procs |-> NoTxn]
    /\ total_revenue = [r \in Procs |-> Scalar(TRUE, 0)]
    /\ wrote = [r \in Procs |-> << >>]
    /\ errors = [r \in Procs |-> << >>]
    /\ lastGood = [t \in Tables |-> Absent(t)]
    /\ today = 10
    /\ resp = NoResp

(***************************************************************************)
(* The environment: the notebooks, the file system, the database server.   *)
(***************************************************************************)
batchVars == << pc, script, txn, total_revenue, wrote, errors >>
serveVars == << today, resp >>

\* The notebooks write all five files from a new state of the raw data; they
\* are run before a loader is, not while one is running.
Export ==
    /\ events < MaxEvents
    /\ \A r \in Procs : pc[r] \in Finished
    /\ \E v \in Versions : csv' = ExportV(v)
    /\ csv' # csv
    /\ events' = events + 1
    /\ UNCHANGED << tables, dbUp, lastGood >>
    /\ UNCHANGED batchVars
    /\ UNCHANGED serveVars

\* A file is deleted, or left empty or truncated (one file at a time; the next
\* export repairs it).
Damage ==
    /\ events < MaxEvents
    /\ \A g \in Files : csv[g].state = "ok"
    /\ \E f \in Files, how \in {Missing, Corrupt} : csv' = [csv EXCEPT ![f] = how]
    /\ events' = events + 1
    /\ UNCHANGED << tables, dbUp, lastGood >>
    /\ UNCHANGED batchVars
    /\ UNCHANGED serveVars

StoreDown ==
    /\ events < MaxEvents
    /\ dbUp
    /\ dbUp' = FALSE
    /\ events' = events + 1
    /\ UNCHANGED << csv, tables, lastGood >>
    /\ UNCHANGED batchVars
    /\ UNCHANGED serveVars

StoreUp ==
    /\ ~dbUp
    /\ dbUp' = TRUE
    /\ UNCHANGED << csv, events, tables, lastGood >>
    /\ UNCHANGED batchVars
    /\ UNCHANGED serveVars

(***************************************************************************)
(* Statements of a loader process.                                         *)
(***************************************************************************)
Goto(r, label) == pc' = [pc EXCEPT ![r] = label]

Raised(r) == errors' = [errors EXCEPT ![r] = Append(@, pc[r])]

\* df.to_sql(t, engine, if_exists='replace'): pandas drops, creates and fills
\* the table in one transaction of its own, committed on return.
to_sql(r, t, rows) ==
    /\ tables' = [tables EXCEPT ![t] = Present(rows)]
    /\ lastGood' = [lastGood EXCEPT ![t] = Present(rows)]
    /\ wrote' = [wrote EXCEPT ![r] = Append(@, t)]

\* pd.read_csv(f) followed by to_sql raises when the file cannot be parsed
\* or the store cannot be reached.
LoadRaises(f) == csv[f].state # "ok" \/ ~dbUp

\* Another process holds the ACCESS EXCLUSIVE lock of a DROP TABLE on t.
LockedByOther(r, t) ==
    \E q \in Procs \ {r} : txn[q].tbl = t /\ txn[q].dropped

\* Another process has created t in a transaction still open: a second
\* CREATE TABLE of the name waits for it.
CreatingByOther(r, t) ==
    \E q \in Procs \ {r} : txn[q].tbl = t /\ txn[q].created

\* conn.execute(text("DROP TABLE IF EXISTS t")) with the drop autocommitted.
DropTableAutocommit(r, t) ==
    /\ txn' = [txn EXCEPT ![r] = [@ EXCEPT !.tbl = t]]
    /\ tables' = [tables EXCEPT ![t] = Absent(t)]
    /\ UNCHANGED lastGood

\* conn.execute(text("DROP TABLE IF EXISTS t")): the drop is pending in the
\* connection's transaction and locks the table if it exists.
DropTable(r, t) ==
    /\ txn' = [txn EXCEPT ![r] = [@ EXCEPT !.tbl = t, !.dropped = tables[t].exists]]
    /\ UNCHANGED << tables, lastGood >>

\* conn.execute(text("CREATE TABLE t AS SELECT ... FROM sales_data")): the new
\* table is pending in the connection's transaction.
CreateTableAs(r, rows) ==
    txn' = [txn EXCEPT ![r] = [@ EXCEPT !.created = TRUE, !.data = rows]]

\* CREATE TABLE t AS ... FROM sales_data raises: no sales_data, or a table t
\* this transaction has not dropped, or no connection.
CreateRaises(r, t) ==
    \/ ~dbUp
    \/ ~tables["sales_data"].exists
    \/ tables[t].exists /\ ~txn[r].dropped

\* conn.commit(): the pending drop and create become the committed table.
commit(r, t) ==
    /\ tables' = [tables EXCEPT ![t] = Present(txn[r].data)]
    /\ lastGood' = [lastGood EXCEPT ![t] = Present(txn[r].data)]
    /\ wrote' = [wrote EXCEPT ![r] = Append(@, t)]
    /\ txn' = [txn EXCEPT ![r] = NoTxn]

\* What no statement of a loader changes.
envVars == << csv, dbUp, today, resp >>

(***************************************************************************)
(* scripts/reload_data.py                                                  *)
(***************************************************************************)
\* An exception leaves the function (closing its connection rolls the open
\* transaction back) and is caught by main's except clause.
main_except(r) ==
    /\ Goto(r, "failed")
    /\ Raised(r)
    /\ txn' = [txn EXCEPT ![r] = NoTxn]
    /\ total_revenue' = [total_revenue EXCEPT ![r] = Scalar(TRUE, 0)]
    /\ UNCHANGED << tables, lastGood, wrote >>

\* A loader script is started.
Launch(r) ==
    /\ pc[r] \in Finished
    /\ events < MaxEvents
    /\ events' = events + 1
    /\ \E s \in {"reload_data", "load_to_postgres"} :
          /\ script' = [script EXCEPT ![r] = s]
          /\ Goto(r, IF s = "reload_data" THEN "connect" ELSE "check_csv_files")
    /\ wrote' = [wrote EXCEPT ![r] = << >>]
    /\ errors' = [errors EXCEPT ![r] = << >>]
    /\ UNCHANGED << tables, lastGood, txn, total_revenue >>
    /\ UNCHANGED envVars

\* main: engine.connect() and SELECT 1.
reload_connect(r) ==
    /\ pc[r] = "connect"
    /\ \/ /\ dbUp
          /\ Goto(r, "reload_sales_data")
          /\ UNCHANGED << tables, lastGood, txn, total_revenue, wrote, errors >>
       \/ /\ ~dbUp
          /\ main_except(r)
    /\ UNCHANGED << script, events >>
    /\ UNCHANGED envVars

reload_sales_data(r) ==
    /\ pc[r] = "reload_sales_data"
    /\ \/ /\ ~LoadRaises("online_retail_enhanced")
          /\ to_sql(r, "sales_data", csv["online_retail_enhanced"].rows)
          /\ Goto(r, "reload_rfm_data")
          /\ UNCHANGED << txn, total_revenue, errors >>
       \/ /\ LoadRaises("online_retail_enhanced")
          /\ main_except(r)
    /\ UNCHANGED << script, events >>
    /\ UNCHANGED envVars

reload_rfm_data(r) ==
    /\ pc[r] = "reload_rfm_data"
    /\ \/ /\ ~LoadRaises("rfm_segments")
          /\ to_sql(r, "rfm_segments", csv["rfm_segments"].rows)
          /\ Goto(r, "daily_drop")
          /\ UNCHANGED << txn, total_revenue, errors >>
       \/ /\ LoadRaises("rfm_segments")
          /\ main_except(r)
    /\ UNCHANGED << script, events >>
    /\ UNCHANGED envVars

\* The DROP TABLE IF EXISTS statement of a recreate function.
DropStep(r, at, t, next) ==
    /\ pc[r] = at
    /\ \/ /\ dbUp
          /\ ~LockedByOther(r, t)
          /\ DropTable(r, t)
          /\ Goto(r, next)
          /\ UNCHANGED << total_revenue, wrote, errors >>
       \/ /\ ~dbUp
          /\ main_except(r)
    /\ UNCHANGED << script, events >>
    /\ UNCHANGED envVars

\* The CREATE TABLE ... AS statement of a recreate function; queryRaises is
\* what the query itself adds to the reasons to raise.
CreateStep(r, at, t, next, rows, queryRaises) ==
    /\ pc[r] = at
    /\ ~LockedByOther(r, t)
    /\ ~CreatingByOther(r, t)
    /\ \/ /\ ~CreateRaises(r, t)
          /\ ~queryRaises
          /\ CreateTableAs(r, rows)
          /\ Goto(r, next)
          /\ UNCHANGED << tables, lastGood, total_revenue, wrote, errors >>
       \/ /\ CreateRaises(r, t) \/ queryRaises
          /\ main_except(r)
    /\ UNCHANGED << script, events >>
    /\ UNCHANGED envVars

\* conn.commit() and the SELECT COUNT(*) that follows it.
CommitStep(r, at, t, next) ==
    /\ pc[r] = at
    /\ \/ /\ dbUp
          /\ commit(r, t)
          /\ Goto(r, next)
          /\ UNCHANGED << total_revenue, errors >>
       \/ /\ ~dbUp
          /\ main_except(r)
    /\ UNCHANGED << script, events >>
    /\ UNCHANGED envVars

recreate_daily_sales(r) ==
    \/ DropStep(r, "daily_drop", "daily_sales", "daily_create")
    \/ CreateStep(r, "daily_create", "daily_sales", "daily_commit",
                  DailySalesOf(tables["sales_data"].rows), FALSE)
    \/ CommitStep(r, "daily_commit", "daily_sales", "country_total")

\* recreate_country_summary's first statement: SELECT SUM("TotalRevenue").
country_total(r) ==
    /\ pc[r] = "country_total"
    /\ \/ /\ dbUp
          /\ tables["sales_data"].exists
          /\ total_revenue' =
                [total_revenue EXCEPT ![r] = TotalRevenueOf(tables["sales_data"].rows)]
          /\ Goto(r, "country_drop")
          /\ UNCHANGED << tables, lastGood, txn, wrote, errors >>
       \/ /\ ~dbUp \/ ~tables["sales_data"].exists
          /\ main_except(r)
    /\ UNCHANGED << script, events >>
    /\ UNCHANGED envVars

recreate_country_summary(r) ==
    \/ country_total(r)
    \/ DropStep(r, "country_drop", "country_summary", "country_create")
    \/ CreateStep(r, "country_create", "country_summary", "country_commit",
                  CountrySummaryOf(tables["sales_data"].rows, total_revenue[r].val),
                  CountryQueryRaises(tables["sales_data"].rows, total_revenue[r]))
    \/ CommitStep(r, "country_commit", "country_summary", "product_drop")

recreate_product_summary(r) ==
    \/ DropStep(r, "product_drop", "product_performance", "product_create")
    \/ CreateStep(r, "product_create", "product_performance", "product_commit",
                  ProductPerformanceOf(tables["sales_data"].rows), FALSE)
    \/ CommitStep(r, "product_commit", "product_performance", "create_indexes")

\* create_indexes catches each index's error; verify_data each table's.  Both
\* open a connection first, and neither changes a table's rows.
create_indexes(r) ==
    /\ pc[r] = "create_indexes"
    /\ \/ /\ dbUp
          /\ Goto(r, "verify_data")
          /\ UNCHANGED << tables, lastGood, txn, total_revenue, wrote, errors >>
       \/ /\ ~dbUp
          /\ main_except(r)
    /\ UNCHANGED << script, events >>
    /\ UNCHANGED envVars

verify_data(r) ==
    /\ pc[r] = "verify_data"
    /\ \/ /\ dbUp
          /\ Goto(r, "done")
          /\ UNCHANGED << tables, lastGood, txn, total_revenue, wrote, errors >>
       \/ /\ ~dbUp
          /\ main_except(r)
    /\ UNCHANGED << script, events >>
    /\ UNCHANGED envVars

(***************************************************************************)
(* src/data/load_to_postgres.py                                            *)
(***************************************************************************)
\* check_csv_files opens each file; main returns when one is missing.
check_csv_files(r) ==
    /\ pc[r] = "check_csv_files"
    /\ \/ /\ \A f \in Files : csv[f].state # "missing"
          /\ Goto(r, "load_connect")
       \/ /\ \E f \in Files : csv[f].state = "missing"
          /\ Goto(r, "aborted")
    /\ UNCHANGED << tables, lastGood, txn, total_revenue, wrote, errors >>
    /\ UNCHANGED << script, events >>
    /\ UNCHANGED envVars

\* main: engine.connect() and SELECT 1; its except clause prints and ends.
load_connect(r) ==
    /\ pc[r] = "load_connect"
    /\ \/ /\ dbUp
          /\ Goto(r, "load_sales_data")
          /\ UNCHANGED errors
       \/ /\ ~dbUp
          /\ Goto(r, "failed")
          /\ Raised(r)
    /\ UNCHANGED << tables, lastGood, txn, total_revenue, wrote >>
    /\ UNCHANGED << script, events >>
    /\ UNCHANGED envVars

\* One load_* function whose exception reaches the except clause of main.
LoadStepAborting(r, at, f, t, next) ==
    /\ pc[r] = at
    /\ \/ /\ ~LoadRaises(f)
          /\ to_sql(r, t, csv[f].rows)
          /\ Goto(r, next)
          /\ UNCHANGED errors
       \/ /\ LoadRaises(f)
          /\ Raised(r)
          /\ Goto(r, "failed")
          /\ UNCHANGED << tables, lastGood, wrote >>
    /\ UNCHANGED << txn, total_revenue, script, events >>
    /\ UNCHANGED envVars

\* One load_* function: its own except clause prints and returns 0, and main
\* goes on to the next load.
LoadStep(r, at, f, t, next) ==
    /\ pc[r] = at
    /\ \/ /\ ~LoadRaises(f)
          /\ to_sql(r, t, csv[f].rows)
          /\ UNCHANGED errors
       \/ /\ LoadRaises(f)
          /\ Raised(r)
          /\ UNCHANGED << tables, lastGood, wrote >>
    /\ Goto(r, next)
    /\ UNCHANGED << txn, total_revenue, script, events >>
    /\ UNCHANGED envVars

load_sales_data(r) ==
    LoadStep(r, "load_sales_data", "online_retail_enhanced", "sales_data", "load_rfm_data")

load_rfm_data(r) ==
    LoadStep(r, "load_rfm_data", "rfm_segments", "rfm_segments", "load_segment_summary")

load_segment_summary(r) ==
    LoadStep(r, "load_segment_summary", "segment_summary", "segment_summary",
             "load_forecast_data")

load_forecast_data(r) ==
    LoadStep(r, "load_forecast_data", "sales_forecast", "sales_forecast",
             "load_monthly_forecast")

load_monthly_forecast(r) ==
    LoadStep(r, "load_monthly_forecast", "monthly_forecast", "monthly_forecast", "done")

(***************************************************************************)
(* The loaders and their environment.                                      *)
(***************************************************************************)
Environment == Export \/ Damage \/ StoreDown \/ StoreUp

reload_data_main(r) ==
    \/ reload_connect(r)
    \/ reload_sales_data(r)
    \/ reload_rfm_data(r)
    \/ recreate_daily_sales(r)
    \/ recreate_country_summary(r)
    \/ recreate_product_summary(r)
    \/ create_indexes(r)
    \/ verify_data(r)

load_to_postgres_main(r) ==
    \/ check_csv_files(r)
    \/ load_connect(r)
    \/ load_sales_data(r)
    \/ load_rfm_data(r)
    \/ load_segment_summary(r)
    \/ load_forecast_data(r)
    \/ load_monthly_forecast(r)

Next ==
    \/ Environment
    \/ \E r \in Procs : Launch(r) \/ reload_data_main(r) \/ load_to_postgres_main(r)

Spec == Init /\ [][Next]_vars

\* The upstream notebooks write a new export while a loader is running.
ExportMidRun ==
    /\ events < MaxEvents
    /\ \E r \in Procs : pc[r] \notin Finished
    /\ \E v \in Versions : csv' = ExportV(v)
    /\ csv' # csv
    /\ events' = events + 1
    /\ UNCHANGED << tables, dbUp, lastGood >>
    /\ UNCHANGED batchVars
    /\ UNCHANGED serveVars

NextMidRun == Next \/ ExportMidRun

\* The loaders with exports arriving at any moment.
SpecMidRun == Init /\ [][NextMidRun]_vars

(***************************************************************************)
(* backend/routers: values and formatting.                                 *)
(***************************************************************************)
\* Day numbers count from 2010-01-01 in a calendar of 30-day months.
YearOf(d) == 2010 + (d \div 360)
MonthOf(d) == ((d % 360) \div 30) + 1
DayOf(d) == (d % 30) + 1

\* TO_CHAR(d, 'YYYY-MM-DD') and strftime("%Y-%m-%d")
FormatDate(d) == [y |-> YearOf(d), m |-> MonthOf(d), d |-> DayOf(d)]

\* TO_CHAR(d, 'YYYY-MM')
FormatMonth(d) == [y |-> YearOf(d), m |-> MonthOf(d)]

\* float(n) of a whole number
Float(n) == Rat(n, 1)

\* round(x, k) for scale = 10^k, halves to the even neighbour.
Round(x, scale) ==
    LET n == x.num * scale
        q == n \div x.den
        rem == n % x.den
        up == 2 * rem > x.den \/ (2 * rem = x.den /\ q % 2 = 1)
    IN  Rat(IF up THEN q + 1 ELSE q, scale)

Min(a, b) == IF a <= b THEN a ELSE b

AllOf(n, x) == [i \in 1 .. n |-> x]

(***************************************************************************)
(* backend/routers/sales.py                                                *)
(***************************************************************************)
DaysMin == 1
DaysMax == 365
LimitMin == 1
LimitMax == 50
SummaryWindow == 30
ExceptDaysCap == 30
MonthlyLimit == 12

\* A handler that drops the aggregate it has just read.
ServeFrameWriting ==
    /\ tables' = [tables EXCEPT !["daily_sales"] = Absent("daily_sales")]
    /\ UNCHANGED << csv, events, dbUp, lastGood, today >>
    /\ UNCHANGED batchVars

\* What is left alone by every endpoint: the handlers execute SELECT
\* statements only and never commit.
ServeFrame ==
    /\ UNCHANGED << csv, events, tables, dbUp, lastGood, today >>
    /\ UNCHANGED batchVars

\* A query raises when the store is unreachable or its table is missing.
QueryRaises(t) == ~dbUp \/ ~tables[t].exists

\* start_date and end_date: absent, a date, or a string that is no date.
NoDate == [kind |-> "none", day |-> 0]
BadDate == [kind |-> "bad", day |-> 0]
OnDay(d) == [kind |-> "date", day |-> d]

SampleLabel == "Sample Data (Database connection issue)"

\* The SalesSummary of the except clause.
SampleSummary ==
    [total_revenue |-> Rat(125000050, 100), total_orders |-> 15000,
     unique_customers |-> 5000, avg_order_value |-> Rat(8333, 100),
     period |-> [label |-> SampleLabel, start |-> NoDate, end |-> NoDate]]

\* The SalesSummary of the rows idx of sales_data.
RealSummary(s, idx, period) ==
    [total_revenue |-> Round(Float(GroupRevenue(s, idx)), 100),
     total_orders |-> GroupInvoices(s, idx),
     unique_customers |-> Cardinality({s[i].CustomerID : i \in idx} \ {NULL}),
     avg_order_value |->
        IF idx = {} THEN Float(0) ELSE Round(GroupAvgRevenue(s, idx), 100),
     period |-> period]

get_sales_summary ==
    \E start \in {NoDate, OnDay(9), BadDate}, end \in {NoDate, OnDay(10), BadDate} :
        LET s == tables["sales_data"].rows
            params == [start_date |-> start, end_date |-> end]
            raises == \/ QueryRaises("sales_data")
                      \/ start.kind # "none" /\ "bad" \in {start.kind, end.kind}
            idx == IF start.kind = "none"
                   THEN {i \in DOMAIN s : s[i].InvoiceDate >= today - SummaryWindow}
                   ELSE IF end.kind = "none" THEN {}
                   ELSE {i \in DOMAIN s :
                            start.day <= s[i].InvoiceDate /\ s[i].InvoiceDate <= end.day}
            period == IF start.kind = "none"
                      THEN [label |-> "Last 30 days", start |-> NoDate, end |-> NoDate]
                      ELSE [label |-> "range", start |-> start, end |-> end]
        IN  /\ resp' = IF raises
                       THEN Response("summary", params, 200,
                                     << SampleSummary >>, << "sample" >>)
                       ELSE Response("summary", params, 200,
                                     << RealSummary(s, idx, period) >>, << "db" >>)
            /\ ServeFrame

\* The synthetic daily series of n days ending on day t.
SampleDaily(n, t) ==
    [i \in 1 .. n |->
        [date |-> FormatDate(t - (i - 1)),
         revenue |-> Float(1000 + (i - 1) * 10),
         orders |-> 50 + (i - 1),
         avg_order_value |-> Rat(40 + (i - 1), 2)]]

\* The rows of daily_sales of the last n days, latest first.
DailyResults(n) ==
    LET rows == {x \in tables["daily_sales"].rows : x.sale_date >= today - n}
        later(a, b) == a.sale_date > b.sale_date
    IN  CHOOSE q \in Orderings(rows, later) : TRUE

RealDaily(results) ==
    [i \in DOMAIN results |->
        [date |-> FormatDate(results[i].sale_date),
         revenue |-> Float(results[i].daily_revenue),
         orders |-> results[i].transaction_count,
         avg_order_value |-> results[i].avg_order_value]]

\* A daily response that fills the days the table lacks with sample rows.
DailyRowsPadded(n, results) ==
    [body |-> RealDaily(results) \o SampleDaily(n - Min(n, Len(results)), today),
     origin |-> AllOf(Len(results), "db") \o AllOf(n - Min(n, Len(results)), "sample")]

\* get_daily_sales after its query: the rows read, or if there are none (or
\* no table) the sample series.
DailyRows(n, results) ==
    IF results # << >>
    THEN [body |-> RealDaily(results), origin |-> AllOf(Len(results), "db")]
    ELSE [body |-> SampleDaily(n, today), origin |-> AllOf(n, "sample")]

get_daily_sales ==
    \E days \in {0, 1, 2, 31, 366} :
        LET params == [days |-> days]
            results == IF tables["daily_sales"].exists THEN DailyResults(days) ELSE << >>
            out == DailyRows(days, results)
            n == Min(days, ExceptDaysCap)
        IN  /\ resp' =
                 IF days < DaysMin \/ days > DaysMax
                 THEN Response("daily", params, 422, << >>, << >>)
                 ELSE IF ~dbUp
                 THEN Response("daily", params, 200, SampleDaily(n, today), AllOf(n, "sample"))
                 ELSE Response("daily", params, 200, out.body, out.origin)
            /\ ServeFrame

Country(name, revenue, transactions, share) ==
    [country |-> name, total_revenue |-> Float(revenue),
     transaction_count |-> transactions, revenue_share |-> share]

SampleCountries ==
    << Country("United Kingdom", 850000, 12000, Float(68)),
       Country("Germany", 150000, 2000, Float(12)),
       Country("France", 120000, 1800, Rat(96, 10)),
       Country("Spain", 80000, 1000, Rat(64, 10)),
       Country("Netherlands", 50000, 700, Float(4)) >>

\* The first n rows of country_summary by total revenue, ties in any order.
CountryResults(n) ==
    LET more(a, b) == a.total_revenue > b.total_revenue
    IN  {Take(q, n) : q \in Orderings(tables["country_summary"].rows, more)}

RealCountries(results) ==
    [i \in DOMAIN results |->
        Country(IF results[i].country \in {NULL, ""} THEN "Unknown"
                ELSE results[i].country,
                results[i].total_revenue, results[i].transaction_count,
                results[i].revenue_share_percentage)]

get_country_sales ==
    \E limit \in {0, 1, 2, 3, 51} :
        \E results \in (IF tables["country_summary"].exists
                        THEN CountryResults(limit) ELSE {<< >>}) :
            LET params == [limit |-> limit]
                sample == Take(SampleCountries, limit)
            IN  /\ resp' =
                     IF limit < LimitMin \/ limit > LimitMax
                     THEN Response("countries", params, 422, << >>, << >>)
                     ELSE IF ~dbUp
                     THEN Response("countries", params, 200,
                                   Take(SampleCountries, 2), AllOf(2, "sample"))
                     ELSE IF results # << >>
                     THEN Response("countries", params, 200,
                                   RealCountries(results), AllOf(Len(results), "db"))
                     ELSE Response("countries", params, 200,
                                   sample, AllOf(Len(sample), "sample"))
                /\ ServeFrame

Product(name, quantity, revenue, price) ==
    [description |-> name, total_quantity |-> quantity,
     total_revenue |-> Float(revenue), avg_price |-> price]

SampleProducts ==
    << Product("Product A", 1500, 75000, Float(50)),
       Product("Product B", 1200, 60000, Float(50)),
       Product("Product C", 1000, 50000, Float(50)),
       Product("Product D", 800, 40000, Float(50)),
       Product("Product E", 600, 30000, Float(50)) >>

ExceptProducts ==
    << Product("Sample Product 1", 100, 5000, Float(50)),
       Product("Sample Product 2", 80, 4000, Float(50)) >>

\* The first n rows of product_performance by revenue or by quantity.
ProductResults(n, by) ==
    LET more(a, b) == IF by = "revenue" THEN a.total_revenue > b.total_revenue
                      ELSE a.total_quantity > b.total_quantity
    IN  {Take(q, n) : q \in Orderings(tables["product_performance"].rows, more)}

\* row[0][:50] + "..." if row[0] and len(row[0]) > 50 else (row[0] or "Unknown")
Shown(d) ==
    IF d \notin {NULL, ""} /\ Len(d) > DisplayLimit
    THEN SubSeq(d, 1, DisplayLimit) \o "..."
    ELSE IF d \in {NULL, ""} THEN "Unknown" ELSE d

RealProducts(results) ==
    [i \in DOMAIN results |->
        Product(Shown(results[i].description),
                results[i].total_quantity, results[i].total_revenue,
                results[i].avg_unit_price)]

get_top_products ==
    \E limit \in {0, 1, 2, 3, 51}, by \in {"revenue", "quantity", "price"} :
        \E results \in (IF tables["product_performance"].exists
                        THEN ProductResults(limit, by) ELSE {<< >>}) :
            LET params == [limit |-> limit, by |-> by]
                sample == Take(SampleProducts, limit)
            IN  /\ resp' =
                     IF limit < LimitMin \/ limit > LimitMax
                        \/ by \notin {"revenue", "quantity"}
                     THEN Response("products", params, 422, << >>, << >>)
                     ELSE IF ~dbUp
                     THEN Response("products", params, 200,
                                   ExceptProducts, AllOf(2, "sample"))
                     ELSE IF results # << >>
                     THEN Response("products", params, 200,
                                   RealProducts(results), AllOf(Len(results), "db"))
                     ELSE Response("products", params, 200,
                                   sample, AllOf(Len(sample), "sample"))
                /\ ServeFrame

SampleMonths ==
    [i \in 1 .. 6 |->
        [month |-> [y |-> 2024, m |-> i],
         revenue |-> Float(100000 + (i - 1) * 5000),
         customers |-> 500 + (i - 1) * 20,
         orders |-> 800 + (i - 1) * 30]]

\* sales_data grouped by month: of one year in ascending order, or (year 0:
\* none given) the latest twelve months, latest first.
MonthlyResults(year) ==
    LET s == tables["sales_data"].rows
        in == {i \in DOMAIN s : year = 0 \/ YearOf(s[i].InvoiceDate) = year}
        idx(mo) == {i \in in : FormatMonth(s[i].InvoiceDate) = mo}
        rows == { [month |-> mo,
                   revenue |-> Float(GroupRevenue(s, idx(mo))),
                   customers |-> Cardinality({s[i].CustomerID : i \in idx(mo)} \ {NULL}),
                   orders |-> GroupInvoices(s, idx(mo))]
                  : mo \in {FormatMonth(s[i].InvoiceDate) : i \in in} }
        key(r) == r.month.y * 12 + r.month.m
        asc(a, b) == key(a) < key(b)
        desc(a, b) == key(a) > key(b)
    IN  IF year # 0 THEN CHOOSE q \in Orderings(rows, asc) : TRUE
        ELSE Take(CHOOSE q \in Orderings(rows, desc) : TRUE, MonthlyLimit)

get_monthly_trends ==
    \E year \in {0, 2010, 2011} :
        LET params == [year |-> year]
            results == IF QueryRaises("sales_data") THEN << >> ELSE MonthlyResults(year)
        IN  /\ resp' =
                 IF results # << >>
                 THEN Response("monthly", params, 200, results, AllOf(Len(results), "db"))
                 ELSE Response("monthly", params, 200, SampleMonths, AllOf(6, "sample"))
            /\ ServeFrame

(***************************************************************************)
(* backend/routers/customers.py                                            *)
(***************************************************************************)
AtRiskLimitMax == 100

\* The characters of the segment labels of the data and of the patterns of
\* the queries.
Spell(w) ==
    CASE w = "Champions" -> << "C", "h", "a", "m", "p", "i", "o", "n", "s" >>
      [] w = "Champion" -> << "C", "h", "a", "m", "p", "i", "o", "n" >>
      [] w = "At Risk" -> << "A", "t", " ", "R", "i", "s", "k" >>
      [] w = "at risk" -> << "a", "t", " ", "r", "i", "s", "k" >>
      [] w = "Lost" -> << "L", "o", "s", "t" >>
      [] OTHER -> << w >>

Lower(c) ==
    CASE c = "A" -> "a" [] c = "C" -> "c" [] c = "L" -> "l" [] c = "R" -> "r"
      [] OTHER -> c

\* segment ILIKE '%pattern%': the match without regard to case.
SegmentILike(segment, pattern) ==
    LET s == [i \in DOMAIN Spell(segment) |-> Lower(Spell(segment)[i])]
        p == [i \in DOMAIN Spell(pattern) |-> Lower(Spell(pattern)[i])]
    IN  \E i \in 1 .. (Len(s) - Len(p) + 1) : SubSeq(s, i, i + Len(p) - 1) = p

\* segment LIKE '%pattern%': the pattern occurs in the segment, character by
\* character.
SegmentLike(segment, pattern) ==
    LET s == Spell(segment)
        p == Spell(pattern)
    IN  \E i \in 1 .. (Len(s) - Len(p) + 1) : SubSeq(s, i, i + Len(p) - 1) = p

\* float(x) of a NULL raises TypeError.
IsNullRat(x) == x.den = 0

get_segment_summary ==
    LET rows == Range(tables["segment_summary"].rows)
        more(a, b) == a.total_revenue > b.total_revenue
        raises == \/ QueryRaises("segment_summary")
                  \/ \E x \in rows : IsNullRat(x.revenue_percentage)
    IN  /\ \E q \in (IF raises THEN {<< >>} ELSE Orderings(rows, more)) :
              resp' =
                 IF raises
                 THEN Response("segments", [none |-> TRUE], 500, << >>, << >>)
                 ELSE Response("segments", [none |-> TRUE], 200,
                               [i \in DOMAIN q |->
                                   [q[i] EXCEPT !.total_revenue = Float(@)]],
                               AllOf(Len(q), "db"))
        /\ ServeFrame

get_at_risk_customers ==
    \E limit \in {0, 1, 2, 101} :
        LET params == [limit |-> limit]
            rows == {x \in Range(tables["rfm_segments"].rows) :
                        SegmentLike(x.segment, "At Risk") \/ SegmentLike(x.segment, "Lost")}
            more(a, b) == a.monetary > b.monetary
            raises == QueryRaises("rfm_segments")
        IN  /\ \E q \in (IF raises THEN {<< >>} ELSE Orderings(rows, more)) :
                  resp' =
                     IF limit < LimitMin \/ limit > AtRiskLimitMax
                     THEN Response("at-risk", params, 422, << >>, << >>)
                     ELSE IF raises
                     THEN Response("at-risk", params, 500, << >>, << >>)
                     ELSE Response("at-risk", params, 200,
                                   [i \in DOMAIN Take(q, limit) |->
                                       [q[i] EXCEPT !.monetary = Float(@)]],
                                   AllOf(Len(Take(q, limit)), "db"))
            /\ ServeFrame

\* A customer's average without the division: the total itself.
AvgOrderValueUndivided(monetary, frequency) == Float(monetary)

\* r.monetary / NULLIF(r.frequency, 0), then float(x) if x else 0: a NULL
\* (no orders to divide by) and a zero both give 0.
AvgOrderValue(monetary, frequency) ==
    LET x == IF frequency = 0 THEN NullRat ELSE Rat(monetary, frequency)
    IN  IF IsNullRat(x) \/ x.num = 0 THEN Float(0) ELSE x

CustomerValue(row) ==
    [customerid |-> row.customerid,
     total_spent |-> Float(row.monetary),
     total_orders |-> row.frequency,
     avg_order_value |-> AvgOrderValue(row.monetary, row.frequency),
     days_since_last_order |-> row.recency,
     segment |-> row.segment]

\* The row .first() returns is any of those the WHERE clause selects.
get_customer_details ==
    \E customer_id \in {"c1", "c2", "c3", "c9"} :
        LET params == [customer_id |-> customer_id]
            raises == QueryRaises("rfm_segments")
            found == IF raises THEN {}
                     ELSE {x \in Range(tables["rfm_segments"].rows) :
                              x.customerid = customer_id}
        IN  /\ \/ /\ raises
                  /\ resp' = Response("details", params, 500, << >>, << >>)
               \/ /\ ~raises
                  /\ found = {}
                  /\ resp' = Response("details", params, 404, << >>, << >>)
               \/ \E result \in found :
                     resp' = Response("details", params, 200,
                                      << CustomerValue(result) >>, << "db" >>)
            /\ ServeFrame

TopLimitMax == 100

RFMCustomer(row) == [row EXCEPT !.monetary = Float(@)]

get_top_customers ==
    \E limit \in {0, 1, 2, 101} :
        LET params == [limit |-> limit]
            rows == Range(tables["rfm_segments"].rows)
            more(a, b) == \/ a.rfm_score > b.rfm_score
                          \/ a.rfm_score = b.rfm_score /\ a.monetary > b.monetary
            raises == QueryRaises("rfm_segments")
        IN  /\ \E q \in (IF raises THEN {<< >>} ELSE Orderings(rows, more)) :
                  resp' =
                     IF limit < LimitMin \/ limit > TopLimitMax
                     THEN Response("top", params, 422, << >>, << >>)
                     ELSE IF raises
                     THEN Response("top", params, 500, << >>, << >>)
                     ELSE Response("top", params, 200,
                                   [i \in DOMAIN Take(q, limit) |-> RFMCustomer(q[i])],
                                   AllOf(Len(Take(q, limit)), "db"))
            /\ ServeFrame

(***************************************************************************)
(* backend/routers/forecast.py                                             *)
(***************************************************************************)
HistoryWindow == 90

Max(a, b) == IF a >= b THEN a ELSE b

\* SUM(predicted_revenue) and AVG(predicted_revenue) of forecast rows.
ForecastTotal(fc) ==
    SumOver(DOMAIN fc, [i \in DOMAIN fc |-> fc[i].predicted_revenue])

\* The forecast total spread over the 90 days of the horizon.
ForecastAvgOverHorizon(fc) ==
    IF fc = << >> THEN NullRat ELSE Rat(ForecastTotal(fc), 90)

ForecastAvg(fc) == IF fc = << >> THEN NullRat ELSE Rat(ForecastTotal(fc), Len(fc))

\* AVG(daily_revenue) over the daily_sales rows of the last 90 days, and the
\* handler's float(x) if x else 0.
HistoricalAvg ==
    LET rows == {x \in tables["daily_sales"].rows : x.sale_date >= today - HistoryWindow}
        sum == SumOver(rows, [x \in rows |-> x.daily_revenue])
    IN  IF rows = {} \/ sum = 0 THEN Float(0) ELSE Rat(sum, Cardinality(rows))

\* The growth taken relative to the forecast average instead of the
\* historical one.
GrowthOverForecast(forecast_avg, historical_avg) ==
    IF forecast_avg.num > 0
    THEN Rat((forecast_avg.num * historical_avg.den
              - historical_avg.num * forecast_avg.den) * 100,
             historical_avg.den * forecast_avg.num)
    ELSE Float(0)

\* ((forecast_avg - historical_avg) / historical_avg) * 100 if the historical
\* average is positive, else 0.
Growth(forecast_avg, historical_avg) ==
    IF historical_avg.num > 0
    THEN Rat((forecast_avg.num * historical_avg.den
              - historical_avg.num * forecast_avg.den) * 100,
             forecast_avg.den * historical_avg.num)
    ELSE Float(0)

\* monthly_forecast ORDER BY predicted_revenue DESC LIMIT 1
PeakMonths ==
    LET rows == Range(tables["monthly_forecast"].rows)
    IN  IF rows = {} THEN {[forecast_month |-> NULL, predicted_revenue |-> 0]}
        ELSE {x \in rows : \A y \in rows : y.predicted_revenue <= x.predicted_revenue}

get_forecast_insights ==
    LET raises == \/ QueryRaises("sales_forecast")
                  \/ QueryRaises("daily_sales")
                  \/ QueryRaises("monthly_forecast")
        fc == tables["sales_forecast"].rows
        forecast_avg == ForecastAvg(fc)
        historical_avg == HistoricalAvg
        growth == Growth(forecast_avg, historical_avg)
    IN  /\ IF raises \/ IsNullRat(forecast_avg)
           THEN resp' = Response("insights", [none |-> TRUE], 500, << >>, << >>)
           ELSE \E peak_month \in PeakMonths :
                   resp' = Response("insights", [none |-> TRUE], 200,
                       << [total_forecast_next_90days |->
                               Round(Float(ForecastTotal(fc)), 100),
                           average_daily_forecast |-> Round(forecast_avg, 100),
                           average_daily_historical |-> Round(historical_avg, 100),
                           expected_growth_percentage |-> Round(growth, 10),
                           peak_month |-> peak_month.forecast_month,
                           peak_month_revenue |->
                               IF peak_month.forecast_month = NULL THEN NullRat
                               ELSE Round(Float(peak_month.predicted_revenue), 100),
                           inventory_increase |-> Max(0, Round(growth, 1).num)] >>,
                       << "db" >>)
        /\ ServeFrame

\* MAX(predicted_revenue) and MIN(predicted_revenue) of a non-empty forecast.
ForecastPeak(fc) ==
    CHOOSE m \in {fc[i].predicted_revenue : i \in DOMAIN fc} :
        \A i \in DOMAIN fc : fc[i].predicted_revenue <= m

ForecastLow(fc) ==
    CHOOSE m \in {fc[i].predicted_revenue : i \in DOMAIN fc} :
        \A i \in DOMAIN fc : fc[i].predicted_revenue >= m

\* WHERE predicted_revenue = m LIMIT 1, with no ORDER BY: the date of any of
\* the rows with that value.
DatesAt(fc, m) ==
    {FormatDate(fc[i].forecast_date) : i \in {j \in DOMAIN fc : fc[j].predicted_revenue = m}}

\* float(None) raises TypeError when sales_forecast has no rows.
get_forecast_summary ==
    LET raises == QueryRaises("sales_forecast")
        fc == tables["sales_forecast"].rows
    IN  /\ IF raises \/ fc = << >>
           THEN resp' = Response("forecast-summary", [none |-> TRUE], 500, << >>, << >>)
           ELSE \E peak_date \in DatesAt(fc, ForecastPeak(fc)),
                   low_date \in DatesAt(fc, ForecastLow(fc)) :
                   resp' = Response("forecast-summary", [none |-> TRUE], 200,
                       << [total_forecast |-> Float(ForecastTotal(fc)),
                           avg_daily |-> ForecastAvg(fc),
                           peak_day |-> peak_date,
                           peak_value |-> Float(ForecastPeak(fc)),
                           low_day |-> low_date,
                           low_value |-> Float(ForecastLow(fc)),
                           days_forecasted |-> Len(fc)] >>,
                       << "db" >>)
        /\ ServeFrame

ChampionLimitMax == 50

get_champion_customers ==
    \E limit \in {0, 1, 2, 51} :
        LET params == [limit |-> limit]
            rows == {x \in Range(tables["rfm_segments"].rows) :
                        SegmentLike(x.segment, "Champion")}
            more(a, b) == a.monetary > b.monetary
            raises == QueryRaises("rfm_segments")
        IN  /\ \E q \in (IF raises THEN {<< >>} ELSE Orderings(rows, more)) :
                  resp' =
                     IF limit < LimitMin \/ limit > ChampionLimitMax
                     THEN Response("champions", params, 422, << >>, << >>)
                     ELSE IF raises
                     THEN Response("champions", params, 500, << >>, << >>)
                     ELSE Response("champions", params, 200,
                                   [i \in DOMAIN Take(q, limit) |-> RFMCustomer(q[i])],
                                   AllOf(Len(Take(q, limit)), "db"))
            /\ ServeFrame

(***************************************************************************)
(* The HTTP layer over a store the loaders have left, their runs having    *)
(* used all but one of the outside events.                                 *)
(***************************************************************************)
\* The store after loads of export vl and rebuilds over the sales of export
\* vd, with the tables of gone never built.
StoreOf(vl, vd, gone) ==
    LET s == SalesV(vd)
        total == IF TotalRevenueOf(s).null THEN 1 ELSE TotalRevenueOf(s).val
        rows(t) ==
            CASE t = "sales_data" -> ExportV(vl)["online_retail_enhanced"].rows
              [] t = "rfm_segments" -> ExportV(vl)["rfm_segments"].rows
              [] t = "segment_summary" -> ExportV(vl)["segment_summary"].rows
              [] t = "sales_forecast" -> ExportV(vl)["sales_forecast"].rows
              [] t = "monthly_forecast" -> ExportV(vl)["monthly_forecast"].rows
              [] t = "daily_sales" -> DailySalesOf(s)
              [] t = "country_summary" -> CountrySummaryOf(s, total)
              [] OTHER -> ProductPerformanceOf(s)
    IN  [t \in Tables |-> IF t \in gone THEN Absent(t) ELSE Present(rows(t))]

InitServe ==
    /\ csv = ExportV(1)
    /\ events = MaxEvents - 1
    /\ \E vl \in Versions, vd \in Versions,
          gone \in {{}, Tables, Derived} \cup {{t} : t \in Tables} :
          /\ tables = StoreOf(vl, vd, gone)
          /\ lastGood = StoreOf(vl, vd, gone)
    /\ dbUp = TRUE
    /\ pc = [r \in Procs |-> "idle"]
    /\ script = [r \in Procs |-> "none"]
    /\ txn = [r \in Procs |-> NoTxn]
    /\ total_revenue = [r \in Procs |-> Scalar(TRUE, 0)]
    /\ wrote = [r \in Procs |-> << >>]
    /\ errors = [r \in Procs |-> << >>]
    /\ today \in {10, 45}
    /\ resp = NoResp

NextServe ==
    \/ get_sales_summary
    \/ get_daily_sales
    \/ get_country_sales
    \/ get_top_products
    \/ get_monthly_trends
    \/ get_segment_summary
    \/ get_at_risk_customers
    \/ get_customer_details
    \/ get_top_customers
    \/ get_forecast_insights
    \/ get_forecast_summary
    \/ get_champion_customers
    \/ StoreDown
    \/ StoreUp

SpecServe == InitServe /\ [][NextServe]_vars

(***************************************************************************)
(* Properties of the loaders.                                              *)
(***************************************************************************)
\* The full result of a recreate function's CREATE TABLE AS, over any state
\* of sales_data (and, for the shares, any total read before).
CompleteRows(t) ==
    CASE t = "daily_sales" -> {DailySalesOf(SalesV(v)) : v \in Versions}
      [] t = "country_summary" ->
            {CountrySummaryOf(SalesV(v), TotalRevenueOf(SalesV(w)).val) :
                v \in Versions, w \in {x \in Versions : ~TotalRevenueOf(SalesV(x)).null}}
      [] OTHER -> {ProductPerformanceOf(SalesV(v)) : v \in Versions}

\* C4: while a derived table is rebuilt, every step leaves what a concurrent
\* reader sees of it either as it was (the complete previous table) or
\* replaced by the complete new table; it is never missing, and never holds
\* anything but the full result of the CREATE TABLE AS.
C4_AtomicReplace ==
    [][\A t \in Derived :
          \/ tables'[t] = tables[t]
          \/ /\ tables'[t].exists
             /\ tables'[t].rows \in CompleteRows(t)]_vars

\* A rebuild is under way (dropped and recreated, not yet committed) and the
\* committed table still shows the previous rows, which differ from the new.
C4_Witness ==
    \E r \in Procs :
        /\ txn[r].tbl = "daily_sales"
        /\ txn[r].dropped
        /\ txn[r].created
        /\ tables["daily_sales"].exists
        /\ tables["daily_sales"].rows # txn[r].data
        /\ tables["daily_sales"].rows # {}

\* C5: at most one recomputation of a derived table is in progress at any
\* time: no two loader processes have both executed a drop or create step on
\* the same table in transactions that are still open.
C5_OneRecomputationPerTable ==
    \A t \in Derived : Cardinality({r \in Procs : txn[r].tbl = t}) <= 1

\* C6: after a reload run has failed, at whatever step, every derived table
\* is present as the last successful commit left it.
C6_FailedRebuildKeepsTable ==
    \A r \in Procs :
        (pc[r] = "failed" /\ script[r] = "reload_data") =>
            \A t \in Derived : tables[t] = lastGood[t]

\* The CREATE TABLE of country_summary failed on the null total of an empty
\* sales_data, after the table was dropped in the same transaction, and the
\* country_summary of the previous run is still there.
C6_Witness ==
    \E r \in Procs :
        /\ pc[r] = "failed"
        /\ script[r] = "reload_data"
        /\ errors[r] = << "country_create" >>
        /\ tables["sales_data"].rows = << >>
        /\ tables["country_summary"].exists
        /\ tables["country_summary"].rows # {}

\* C7: a run in which a step failed has replaced no table.
C7_FailsAsUnit ==
    \A r \in Procs :
        (pc[r] \in {"done", "failed"} /\ errors[r] # << >>) => wrote[r] = << >>

\* No loader is running and none of the finished runs met an error.
CompletedRuns ==
    /\ \A r \in Procs : pc[r] \in {"idle", "done"} /\ errors[r] = << >>
    /\ \E r \in Procs : pc[r] = "done"

\* C8: after completed runs that left rfm_segments holding the current export,
\* segment_summary is the grouping of that rfm_segments by segment.
C8_SegmentSummaryCurrent ==
    (/\ CompletedRuns
     /\ csv["rfm_segments"].state = "ok"
     /\ tables["rfm_segments"] = Present(csv["rfm_segments"].rows)
     /\ tables["segment_summary"].exists)
    => Range(tables["segment_summary"].rows) =
          SegmentSummaryOf(tables["rfm_segments"].rows)

\* C9: after completed runs that replaced sales_data (it holds the current
\* export), the derived tables are those computed from the current sales_data.
C9_DerivedCurrent ==
    (/\ CompletedRuns
     /\ \E r \in Procs : "sales_data" \in Range(wrote[r])
     /\ csv["online_retail_enhanced"].state = "ok"
     /\ tables["sales_data"] = Present(csv["online_retail_enhanced"].rows)
     /\ \A t \in Derived : tables[t].exists
     /\ ~TotalRevenueOf(tables["sales_data"].rows).null)
    => LET s == tables["sales_data"].rows
       IN  /\ tables["daily_sales"].rows = DailySalesOf(s)
           /\ tables["country_summary"].rows =
                 CountrySummaryOf(s, TotalRevenueOf(s).val)
           /\ tables["product_performance"].rows = ProductPerformanceOf(s)

(***************************************************************************)
(* Properties of the HTTP layer.                                           *)
(***************************************************************************)
SalesEndpoints == {"summary", "daily", "countries", "products", "monthly"}

\* The table an endpoint reads.
TableOf(e) ==
    CASE e = "summary" -> "sales_data"
      [] e = "daily" -> "daily_sales"
      [] e = "countries" -> "country_summary"
      [] e = "products" -> "product_performance"
      [] e = "monthly" -> "sales_data"
      [] e = "segments" -> "segment_summary"
      [] OTHER -> "rfm_segments"

\* A row of a body says of itself that it is sample data: by its period
\* label, or by a product name that starts with "Sample".
HasSampleMarker(row) ==
    \/ "period" \in DOMAIN row /\ row.period.label = SampleLabel
    \/ /\ "description" \in DOMAIN row
       /\ row.description \in {"Sample Product 1", "Sample Product 2"}

\* C1: every response of a sales endpoint that holds made-up rows, whatever
\* led to them (missing table, no rows, a query that raised), carries a
\* sample-data marker in its body.
C1_FallbackCarriesMarker ==
    (/\ resp.endpoint \in SalesEndpoints
     /\ resp.status = 200
     /\ \E i \in DOMAIN resp.origin : resp.origin[i] = "sample")
        => \E i \in DOMAIN resp.body : HasSampleMarker(resp.body[i])

\* C2: the rows of one response of a sales endpoint are all read from the
\* tables or all made up, never some of each.
C2_NeverMixed ==
    resp.endpoint \in SalesEndpoints =>
        \A i \in DOMAIN resp.origin, j \in DOMAIN resp.origin :
            resp.origin[i] = resp.origin[j]

\* The daily endpoint found fewer days in the table than were asked for and
\* answered with just the rows it read.
C2_Witness ==
    /\ resp.endpoint = "daily"
    /\ resp.status = 200
    /\ resp.body # << >>
    /\ Len(resp.body) < resp.params.days
    /\ \A i \in DOMAIN resp.origin : resp.origin[i] = "db"

\* C3: a request that passes validation and whose query raises (the store is
\* unreachable or the table is missing) is answered with status 200, for the
\* endpoints of every router.
C3_DataAccessErrorDegrades ==
    [][(/\ resp' # resp
        /\ resp'.status # 422
        /\ QueryRaises(TableOf(resp'.endpoint)))
          => resp'.status = 200]_vars

\* The query of a list endpoint runs and returns no row.
ZeroRows(e, params) ==
    /\ ~QueryRaises(TableOf(e))
    /\ CASE e = "daily" -> DailyResults(params.days) = << >>
         [] e = "countries" -> tables["country_summary"].rows = {}
         [] e = "products" -> tables["product_performance"].rows = {}
         [] e = "monthly" -> MonthlyResults(params.year) = << >>
         [] e = "at-risk" ->
               \A x \in Range(tables["rfm_segments"].rows) :
                   ~(SegmentLike(x.segment, "At Risk") \/ SegmentLike(x.segment, "Lost"))
         [] OTHER -> FALSE

\* C10: a list endpoint whose query runs and returns no row answers with the
\* empty list.
C10_EmptyIsNotFailure ==
    [][(/\ resp' # resp
        /\ resp'.status = 200
        /\ ZeroRows(resp'.endpoint, resp'.params))
          => resp'.body = << >>]_vars

\* C11: when its query runs, get_customer_details answers 404 exactly when
\* rfm_segments has no row of the requested customer id; otherwise it answers
\* with the monetary, frequency, recency and segment of such a row, and with
\* an avg_order_value that is 0 when the frequency is 0 and otherwise the
\* monetary divided by the frequency.
C11_CustomerDetails ==
    [][(/\ resp' # resp
        /\ resp'.endpoint = "details"
        /\ ~QueryRaises("rfm_segments"))
          => LET id == resp'.params.customer_id
                 rows == {x \in Range(tables["rfm_segments"].rows) : x.customerid = id}
             IN  /\ resp'.status \in {200, 404}
                 /\ resp'.status = 404 <=> rows = {}
                 /\ resp'.status = 200 =>
                       \E x \in rows :
                           LET out == resp'.body[1]
                           IN  /\ out.customerid = id
                               /\ out.total_spent = [num |-> x.monetary, den |-> 1]
                               /\ out.total_orders = x.frequency
                               /\ out.days_since_last_order = x.recency
                               /\ out.segment = x.segment
                               /\ out.avg_order_value.den > 0
                               /\ IF x.frequency = 0
                                  THEN out.avg_order_value.num = 0
                                  ELSE out.avg_order_value.num * x.frequency
                                           = x.monetary * out.avg_order_value.den]_vars

\* The details of a customer with no orders, a total of 50 and an average of 0.
C11_Witness ==
    /\ resp.endpoint = "details"
    /\ resp.status = 200
    /\ resp.body[1].total_orders = 0
    /\ resp.body[1].total_spent = [num |-> 50, den |-> 1]
    /\ resp.body[1].avg_order_value = [num |-> 0, den |-> 1]

\* C12: a days parameter outside 1..365 is rejected (422) and one inside is
\* used as given on every path: a daily response made of sample rows has as
\* many rows as days were asked for.
C12_NoSilentClamp ==
    resp.endpoint = "daily" =>
        /\ resp.status = 422 <=> (resp.params.days < 1 \/ resp.params.days > 365)
        /\ (/\ resp.status = 200
            /\ \A i \in DOMAIN resp.origin : resp.origin[i] = "sample")
              => Len(resp.body) = resp.params.days

\* C13: the growth percentage get_forecast_insights reports is, to one
\* decimal, (avg_daily_forecast - avg_daily_historical) / avg_daily_historical
\* * 100 when the historical average is above 0, and exactly 0 when it is 0 or
\* the historical window has no rows; it is always a defined number.
C13_GrowthGuarded ==
    [][(/\ resp' # resp
        /\ resp'.endpoint = "insights"
        /\ resp'.status = 200)
          => LET fc == tables["sales_forecast"].rows
                 sumF == SumOver(DOMAIN fc, [i \in DOMAIN fc |-> fc[i].predicted_revenue])
                 hist == {x \in tables["daily_sales"].rows : x.sale_date >= today - 90}
                 sumH == SumOver(hist, [x \in hist |-> x.daily_revenue])
                 nH == Cardinality(hist)
                 out == resp'.body[1].expected_growth_percentage
             IN  /\ out.den > 0
                 /\ (nH = 0 \/ sumH = 0) => out.num = 0
                 /\ (nH > 0 /\ sumH > 0) =>
                       out = Round(Rat((sumF * nH - sumH * Len(fc)) * 100,
                                       Len(fc) * sumH), 10)]_vars

\* The forecast 100, 200, 150 against a historical average of 120: a growth
\* of 25.0 percent.
C13_Witness ==
    /\ resp.endpoint = "insights"
    /\ resp.status = 200
    /\ resp.body[1].average_daily_forecast = [num |-> 150, den |-> 1]
    /\ resp.body[1].average_daily_historical = [num |-> 120, den |-> 1]
    /\ resp.body[1].expected_growth_percentage = [num |-> 25, den |-> 1]

\* Insights served while the historical window has no rows: a growth of 0.
C13_WitnessEmptyWindow ==
    /\ resp.endpoint = "insights"
    /\ resp.status = 200
    /\ tables["daily_sales"].rows = {}
    /\ resp.body[1].expected_growth_percentage = [num |-> 0, den |-> 1]

\* The earliest forecast date among the rows of fc with predicted revenue m.
EarliestAt(fc, m) ==
    LET at == {fc[i].forecast_date : i \in {j \in DOMAIN fc : fc[j].predicted_revenue = m}}
    IN  CHOOSE d \in at : \A e \in at : d <= e

\* C14: when several forecast days share the maximum (or the minimum)
\* predicted revenue, the peak_day (or low_day) of get_forecast_summary is the
\* earliest of them.
C14_TiesEarliestFirst ==
    (resp.endpoint = "forecast-summary" /\ resp.status = 200) =>
        LET fc == tables["sales_forecast"].rows
            out == resp.body[1]
        IN  /\ out.peak_day = FormatDate(EarliestAt(fc, out.peak_value.num))
            /\ out.low_day = FormatDate(EarliestAt(fc, out.low_value.num))

\* C15: for a non-empty forecast get_forecast_summary returns the sum, the
\* mean, the maximum, the minimum and the length of the series, and as
\* peak_day and low_day dates that have the maximum and the minimum; for the
\* series 100, 200, 150 the mean is 150 and the peak day is the second day.
C15_ForecastSummary ==
    (resp.endpoint = "forecast-summary" /\ resp.status = 200) =>
        LET fc == tables["sales_forecast"].rows
            value == [i \in DOMAIN fc |-> fc[i].predicted_revenue]
            sum == SumOver(DOMAIN fc, value)
            out == resp.body[1]
        IN  /\ fc # << >>
            /\ out.total_forecast = [num |-> sum, den |-> 1]
            /\ out.avg_daily.den > 0
            /\ out.avg_daily.num * Len(fc) = sum * out.avg_daily.den
            /\ out.peak_value.den = 1
            /\ out.low_value.den = 1
            /\ \A i \in DOMAIN fc : out.low_value.num <= value[i] /\ value[i] <= out.peak_value.num
            /\ \E i \in DOMAIN fc : /\ value[i] = out.peak_value.num
                                    /\ out.peak_day = FormatDate(fc[i].forecast_date)
            /\ \E i \in DOMAIN fc : /\ value[i] = out.low_value.num
                                    /\ out.low_day = FormatDate(fc[i].forecast_date)
            /\ out.days_forecasted = Len(fc)
            /\ value = << 100, 200, 150 >> =>
                  /\ out.avg_daily = [num |-> 150, den |-> 1]
                  /\ out.peak_day = FormatDate(fc[2].forecast_date)

\* The summary of the series 100, 200, 150: mean 150, peak 200 on its second day.
C15_Witness ==
    /\ resp.endpoint = "forecast-summary"
    /\ resp.status = 200
    /\ resp.body[1].days_forecasted = 3
    /\ resp.body[1].total_forecast = [num |-> 450, den |-> 1]
    /\ resp.body[1].avg_daily = [num |-> 150, den |-> 1]
    /\ resp.body[1].peak_value = [num |-> 200, den |-> 1]
    /\ resp.body[1].peak_day = [y |-> 2010, m |-> 1, d |-> 13]

RatAdd(a, b) == Rat(a.num * b.den + b.num * a.den, a.den * b.den)

RECURSIVE ShareSum(_)
\* The sum of the revenue shares of a set of country_summary rows.
ShareSum(rows) ==
    IF rows = {} THEN [num |-> 0, den |-> 1]
    ELSE LET x == CHOOSE y \in rows : TRUE
         IN  RatAdd(x.revenue_share_percentage, ShareSum(rows \ {x}))

C17_DailyAggregation ==
    tables["daily_sales"].exists =>
        \E v \in Versions :
            LET s == SalesV(v)
                on(d) == {i \in DOMAIN s : s[i].InvoiceDate = d}
                rows == tables["daily_sales"].rows
            IN  /\ \A i \in DOMAIN s : \E x \in rows : x.sale_date = s[i].InvoiceDate
                /\ \A x, y \in rows : x.sale_date = y.sale_date => x = y
                /\ \A x \in rows :
                      /\ on(x.sale_date) # {}
                      /\ x.daily_revenue =
                            SumOver(on(x.sale_date), [i \in DOMAIN s |-> s[i].TotalRevenue])
                      /\ x.transaction_count =
                            Cardinality({s[i].InvoiceNo : i \in on(x.sale_date)})

\* A completed reload over the two invoices of 100 and -20 of one day: the
\* day's row has daily_revenue 80 and transaction_count 2.
C17_Witness ==
    /\ \E r \in Procs : script[r] = "reload_data" /\ pc[r] = "done"
    /\ tables["daily_sales"].exists
    /\ \E x \in tables["daily_sales"].rows :
          x.sale_date = 9 /\ x.daily_revenue = 80 /\ x.transaction_count = 2

\* A daily response made of sample rows only.
IsSampleDaily(x) ==
    /\ x.endpoint = "daily"
    /\ x.status = 200
    /\ x.origin # << >>
    /\ \A i \in DOMAIN x.origin : x.origin[i] = "sample"

\* C18: two sample responses of get_daily_sales for the same days and the
\* same today are identical, whatever made each of them a fallback, and entry
\* i (from 0) is dated today minus i days with revenue 1000 + 10 * i.
C18_SampleSeriesDeterministic ==
    [][(/\ IsSampleDaily(resp)
        /\ IsSampleDaily(resp')
        /\ resp'.params.days = resp.params.days
        /\ today' = today)
          => /\ resp'.body = resp.body
             /\ \A i \in DOMAIN resp'.body :
                   /\ resp'.body[i].date = FormatDate(today - (i - 1))
                   /\ resp'.body[i].revenue = [num |-> 1000 + 10 * (i - 1), den |-> 1]]_vars

\* C19: no request to an endpoint of the sales, customers or forecast router
\* changes a table: through every sequence of requests, in any order and
\* whatever their outcome, every table stays as it was.
C19_EndpointsReadOnly ==
    [][\A t \in Tables : tables'[t] = tables[t]]_vars

\* A forecast request has been answered from the tables, all of which exist
\* and are as the loaders left them.
C19_Witness ==
    /\ resp.endpoint = "forecast-summary"
    /\ resp.status = 200
    /\ \A t \in Tables : tables[t].exists
    /\ tables = lastGood

\* The label has the word inside it, capitals and small letters distinguished.
HasSubstring(label, word) ==
    \E i \in 0 .. Len(Spell(label)), j \in 0 .. Len(Spell(label)) :
        SubSeq(Spell(label), i + 1, j) = Spell(word)

\* C20: get_at_risk_customers returns only customers whose segment contains
\* "At Risk" or "Lost" and get_champion_customers only those whose segment
\* contains "Champion", letter case distinguished; each returns at most limit
\* customers, each once, in descending order of monetary, and no matching
\* customer left out has more monetary than one returned.
C20_SegmentFilters ==
    (resp.endpoint \in {"at-risk", "champions"} /\ resp.status = 200) =>
        LET words == IF resp.endpoint = "at-risk" THEN {"At Risk", "Lost"}
                     ELSE {"Champion"}
            all == {x \in Range(tables["rfm_segments"].rows) :
                       \E w \in words : HasSubstring(x.segment, w)}
            sent == {x \in all : \E i \in DOMAIN resp.body :
                        resp.body[i] = [x EXCEPT !.monetary = [num |-> @, den |-> 1]]}
            limit == resp.params.limit
        IN  /\ \A i \in DOMAIN resp.body : \E x \in all :
                  resp.body[i] = [x EXCEPT !.monetary = [num |-> @, den |-> 1]]
            /\ \A i, j \in DOMAIN resp.body : i # j => resp.body[i] # resp.body[j]
            /\ Len(resp.body) = IF Cardinality(all) < limit THEN Cardinality(all) ELSE limit
            /\ \A i, j \in DOMAIN resp.body :
                  i < j => resp.body[i].monetary.num >= resp.body[j].monetary.num
            /\ \A x \in all \ sent : \A y \in sent : y.monetary >= x.monetary

\* One at-risk customer was asked for: the answer is the "At Risk" customer
\* with monetary 70, while a "Lost" customer with less is cut by the limit and
\* a customer labelled "at risk" with more is not matched.
C20_Witness ==
    /\ resp.endpoint = "at-risk"
    /\ resp.status = 200
    /\ resp.params.limit = 1
    /\ Len(resp.body) = 1
    /\ resp.body[1].customerid = "c5"
    /\ \E x \in Range(tables["rfm_segments"].rows) : x.segment = "at risk" /\ x.monetary = 500
    /\ \E x \in Range(tables["rfm_segments"].rows) : x.segment = "Lost" /\ x.monetary = 50

\* The rows of a response that carry the label "Unknown".
UnknownRows(body) == {i \in DOMAIN body : body[i].country = "Unknown"}

\* C21: the transactions with a null or empty country are not dropped from
\* the country aggregate: a response of get_country_sales read from
\* country_summary whose limit covers the table has a row labelled "Unknown"
\* when the table has a group with no country, and no response carries that
\* label on more than one row.
C21_UnknownBucket ==
    (/\ resp.endpoint = "countries"
     /\ resp.status = 200
     /\ resp.body # << >>
     /\ \A i \in DOMAIN resp.origin : resp.origin[i] = "db")
    => /\ (/\ resp.params.limit >= Cardinality(tables["country_summary"].rows)
           /\ \E row \in tables["country_summary"].rows : row.country \in {NULL, ""})
          => UnknownRows(resp.body) # {}
       /\ Cardinality(UnknownRows(resp.body)) <= 1

\* The product rollup of the sales rows s, stated row by row: one row for
\* each full description, with the quantity and the revenue of the sales
\* rows that have exactly that description.
GroupedByFullDescription(rows, s) ==
    /\ {row.description : row \in rows} = {s[i].Description : i \in DOMAIN s}
    /\ \A a, b \in rows : a.description = b.description => a = b
    /\ \A row \in rows :
          LET idx == {i \in DOMAIN s : s[i].Description = row.description}
          IN  /\ row.total_quantity = SumOver(idx, [i \in DOMAIN s |-> s[i].Quantity])
              /\ row.total_revenue = SumOver(idx, [i \in DOMAIN s |-> s[i].TotalRevenue])

\* C22: a description is cut to the display limit only when get_top_products
\* formats a row.  product_performance is grouped by the full description,
\* and a response read from it has one row for each table row it selected,
\* with that row's own quantity and revenue, whatever of its description is
\* shown: two products that differ only after the limit stay two rows.
C22_TruncationIsPresentation ==
    /\ tables["product_performance"].exists
       => \E v \in Versions :
              GroupedByFullDescription(tables["product_performance"].rows, SalesV(v))
    /\ (/\ resp.endpoint = "products"
        /\ resp.status = 200
        /\ resp.body # << >>
        /\ \A i \in DOMAIN resp.origin : resp.origin[i] = "db")
       => LET rows == tables["product_performance"].rows
          IN  /\ Len(resp.body) = Min(resp.params.limit, Cardinality(rows))
              /\ \E f \in [DOMAIN resp.body -> rows] :
                    /\ \A i, j \in DOMAIN resp.body : f[i] = f[j] => i = j
                    /\ \A i \in DOMAIN resp.body :
                          /\ resp.body[i].total_quantity = f[i].total_quantity
                          /\ resp.body[i].total_revenue = Float(f[i].total_revenue)
                          /\ Len(f[i].description) <= DisplayLimit
                             => resp.body[i].description = f[i].description
                          /\ Len(f[i].description) > DisplayLimit
                             => resp.body[i].description =
                                    SubSeq(f[i].description, 1, DisplayLimit) \o "..."

\* A response with two rows that show the same cut description and carry
\* different totals.
C22_Witness ==
    /\ resp.endpoint = "products"
    /\ resp.status = 200
    /\ \A i \in DOMAIN resp.origin : resp.origin[i] = "db"
    /\ \E i, j \in DOMAIN resp.body :
          /\ i # j
          /\ resp.body[i].description = resp.body[j].description
          /\ Len(resp.body[i].description) = DisplayLimit + 3
          /\ resp.body[i].total_quantity # resp.body[j].total_quantity
          /\ resp.body[i].total_revenue # resp.body[j].total_revenue

\* The five loads of load_to_postgres.main in the order of its calls, each
\* with the table it replaces.
LoadLabels ==
    << "load_sales_data", "load_rfm_data", "load_segment_summary",
       "load_forecast_data", "load_monthly_forecast" >>

LoadTables ==
    << "sales_data", "rfm_segments", "segment_summary", "sales_forecast",
       "monthly_forecast" >>

\* Run r has attempted its k-th load: it replaced the table or the load raised.
Attempted(r, k) ==
    \/ LoadTables[k] \in Range(wrote[r])
    \/ LoadLabels[k] \in Range(errors[r])

\* Run r has attempted exactly its first n loads, and the tables it replaced
\* were replaced in the order of the calls.
AttemptedFirst(r, n) ==
    /\ \A k \in 1 .. 5 : Attempted(r, k) <=> k <= n
    /\ \A i, j \in DOMAIN wrote[r] :
          i < j => \E k, l \in 1 .. 5 :
                      k < l /\ wrote[r][i] = LoadTables[k] /\ wrote[r][j] = LoadTables[l]

\* C24 as stated: a run of load_to_postgres.main that has ended either found
\* a file missing and replaced no table, or attempted all five loads in the
\* order sales_data, rfm_segments, segment_summary, sales_forecast,
\* monthly_forecast, whichever of them failed.
C24_AllFiveOrNone ==
    \A r \in Procs :
        (script[r] = "load_to_postgres" /\ pc[r] \in {"done", "failed", "aborted"})
        => \/ pc[r] = "aborted" /\ wrote[r] = << >> /\ errors[r] = << >>
           \/ AttemptedFirst(r, 5)

\* C24 as amended: a run that found a file missing ends having replaced no
\* table and met no error; a run whose connection test failed ends having
\* attempted no load; every other run attempts the five loads in the order
\* of the calls, a load that raises not keeping the later ones from running.
C24_LoadOrder ==
    \A r \in Procs :
        script[r] = "load_to_postgres" =>
            /\ pc[r] = "aborted" => wrote[r] = << >> /\ errors[r] = << >>
            /\ pc[r] = "failed" => wrote[r] = << >> /\ errors[r] = << "load_connect" >>
            /\ pc[r] \in {"check_csv_files", "load_connect"}
               => wrote[r] = << >> /\ errors[r] = << >>
            /\ \A k \in 1 .. 5 : pc[r] = LoadLabels[k] => AttemptedFirst(r, k - 1)
            /\ pc[r] = "done" => AttemptedFirst(r, 5)

\* A run has ended in which the load of rfm_segments raised and the three
\* loads after it replaced their tables.
C24_Witness ==
    \E r \in Procs :
        /\ script[r] = "load_to_postgres"
        /\ pc[r] = "done"
        /\ errors[r] = << "load_rfm_data" >>
        /\ wrote[r] = << "sales_data", "segment_summary", "sales_forecast",
                         "monthly_forecast" >>

====
